---- MODULE Spec2Model ----
(***************************************************************************)
(* A model of vector.c: a growable array of T (int) kept in a realloc'ed   *)
(* buffer, with the heap (malloc/realloc/free) modelled explicitly so that *)
(* the pointer the vector keeps can be told apart from the block it names. *)
(*                                                                         *)
(* The vector owns at most one block, so the heap is one block: `alloc`    *)
(* says whether it is allocated and `mem` holds its slots.  A pointer is   *)
(* NULL or BUF; BUF is dangling when the block is not allocated.  A slot   *)
(* that was never written holds Indet; an indeterminate slot gets an       *)
(* arbitrary value of T at the moment it becomes an element of the vector. *)
(* Undefined behaviour (realloc or free of a released block, a store       *)
(* outside the block) is recorded in last.fault, and the call either       *)
(* aborts the process or goes on, both outcomes being explored.            *)
(* Sizes stay far below SIZE_MAX / sizeof(T): size_t arithmetic never      *)
(* wraps in the states explored.                                           *)
(***************************************************************************)
EXTENDS Integers, Sequences, FiniteSets, TLC

(* ---- bounds of the model ---- *)
MaxVal == 1
MaxSize == 3
MaxPushes == 9

(* ---- constants of vector.c ---- *)
BAD_ALLOC == 0
OK == 1
INIT_CAPACITY == 8
SCALING_FACTOR == 2

VARIABLES vec, heap, last, status, fresh, pushed

vars == <<vec, heap, last, status, fresh, pushed>>

\* the values of T the model stores
Values == 0..MaxVal
\* content of a slot no store has reached
Indet == 0 - 1
\* what a call that did not return leaves in last.ret
VOID == OK + 1

NULL == "NULL"
BUF == "BUF"

\* what realloc may do with a request it is able to serve or to refuse
Outcomes == {"null", "same", "moved"}

NoHeap == [alloc |-> FALSE, mem |-> <<>>]

\* the pointer p names the allocated block of h
Live(h, p) == p = BUF /\ h.alloc

\* the result of an operation of the vector: the vector, the heap, the value
\* returned, the undefined behaviour met and what realloc did
Result(v, h, ret, fault, how) ==
    [vec |-> v, heap |-> h, ret |-> ret, fault |-> fault, realloc |-> how]

FirstFault(a, b) == IF a # "none" THEN a ELSE b

(* ---- the C library ---- *)

\* realloc(p, n * sizeof(T)) under outcome o: the pointer returned, the heap
\* afterwards, and how the block was obtained
realloc(h, p, n, o) ==
    LET dangling == p # NULL /\ ~h.alloc
        old == IF Live(h, p) THEN h.mem ELSE <<>>
        how == IF o = "null" THEN "null"
               ELSE IF Live(h, p) THEN o ELSE "new"
        fault == IF dangling THEN "realloc_freed" ELSE "none"
    IN  IF o = "null"
        THEN [ptr |-> NULL,
              heap |-> IF n = 0 /\ Live(h, p) THEN NoHeap ELSE h,
              how |-> how, fault |-> fault]
        ELSE [ptr |-> BUF,
              heap |-> [alloc |-> TRUE,
                        mem |-> [i \in 1..n |->
                                   IF i <= Len(old) THEN old[i] ELSE Indet]],
              how |-> how, fault |-> fault]

\* free(p)
free(h, p) ==
    IF p = NULL THEN [heap |-> h, fault |-> "none"]
    ELSE IF h.alloc THEN [heap |-> NoHeap, fault |-> "none"]
    ELSE [heap |-> h, fault |-> "double_free"]

\* p[idx] = val
Store(h, p, idx, val) ==
    IF Live(h, p) /\ idx < Len(h.mem)
    THEN [heap |-> [h EXCEPT !.mem[idx + 1] = val], fault |-> "none"]
    ELSE [heap |-> h,
          fault |-> IF p = NULL THEN "write_null"
                    ELSE IF ~h.alloc THEN "write_freed" ELSE "write_oob"]

\* memmove(p + dst, p + src, n * sizeof(T))
memmove(h, p, dst, src, n) ==
    IF Live(h, p) /\ src + n <= Len(h.mem) /\ dst + n <= Len(h.mem)
    THEN [heap |-> [h EXCEPT !.mem =
                      [i \in 1..Len(h.mem) |->
                         IF dst + 1 <= i /\ i <= dst + n
                         THEN h.mem[i - dst + src] ELSE h.mem[i]]],
          fault |-> "none"]
    ELSE [heap |-> h,
          fault |-> IF p = NULL THEN "write_null"
                    ELSE IF ~h.alloc THEN "write_freed" ELSE "write_oob"]

(* ---- vector.c ---- *)

\* vector_reserve that takes a new block without the old elements
vector_reserve_malloc(v, h, count, o) ==
    IF count <= v.capacity
    THEN Result(v, h, OK, "none", "none")
    ELSE LET r == realloc(NoHeap, NULL, count, o)
         IN  IF r.ptr = NULL
             THEN Result(v, h, BAD_ALLOC, r.fault, r.how)
             ELSE Result([v EXCEPT !.contents = r.ptr, !.capacity = count],
                         r.heap, OK, r.fault, r.how)

\* vector_reserve that stores what realloc returned before testing it
vector_reserve_overwrite(v, h, count, o) ==
    IF count <= v.capacity
    THEN Result(v, h, OK, "none", "none")
    ELSE LET r == realloc(h, v.contents, count, o)
         IN  IF r.ptr = NULL
             THEN Result([v EXCEPT !.contents = r.ptr], r.heap, BAD_ALLOC,
                         r.fault, r.how)
             ELSE Result([v EXCEPT !.contents = r.ptr, !.capacity = count],
                         r.heap, OK, r.fault, r.how)

\* vector_reserve without the test count <= capacity
vector_reserve_always(v, h, count, o) ==
    LET r == realloc(h, v.contents, count, o)
    IN  IF r.ptr = NULL
        THEN Result(v, r.heap, BAD_ALLOC, r.fault, r.how)
        ELSE Result([v EXCEPT !.contents = r.ptr, !.capacity = count],
                    r.heap, OK, r.fault, r.how)

vector_reserve(v, h, count, o) ==
    IF count <= v.capacity
    THEN Result(v, h, OK, "none", "none")
    ELSE LET r == realloc(h, v.contents, count, o)
         IN  IF r.ptr = NULL
             THEN Result(v, r.heap, BAD_ALLOC, r.fault, r.how)
             ELSE Result([v EXCEPT !.contents = r.ptr, !.capacity = count],
                         r.heap, OK, r.fault, r.how)

\* vector_init without the reservation
vector_init_lazy(v, h, o) ==
    vector_reserve([v EXCEPT !.contents = NULL, !.size = 0, !.capacity = 0],
                   h, 0, o)

vector_init(v, h, o) ==
    vector_reserve([v EXCEPT !.contents = NULL, !.size = 0, !.capacity = 0],
                   h, INIT_CAPACITY, o)

vector_clear(v, h) ==
    LET f == free(h, v.contents)
    IN  Result([v EXCEPT !.size = 0, !.capacity = 0], f.heap, VOID, f.fault, "none")

\* the slots of [size, count) that realloc hands to resize without a value
Exposed(v, h, count, o) ==
    LET r == realloc(h, v.contents, count, o)
    IN  IF r.ptr = NULL THEN {}
        ELSE {i \in (v.size + 1)..count : r.heap.mem[i] = Indet}

\* memset(p + count, 0, n * sizeof(T)) in vector_resize, where p is the pointer
\* the vector held before realloc (r is what realloc did)
memset_old(h, p, r, count, n) ==
    LET target == IF Live(h, p) /\ r.how = "same" THEN r.heap ELSE NoHeap
    IN  IF Live(target, p) /\ count + n <= Len(target.mem)
        THEN [heap |-> [r.heap EXCEPT !.mem =
                          [i \in 1..Len(r.heap.mem) |->
                             IF count + 1 <= i /\ i <= count + n
                             THEN 0 ELSE r.heap.mem[i]]],
              fault |-> "none"]
        ELSE [heap |-> r.heap,
              fault |-> IF p = NULL THEN "write_null"
                        ELSE IF ~target.alloc THEN "write_freed" ELSE "write_oob"]

\* vector_resize that stores what realloc returned before testing it
vector_resize_overwrite(v, h, count, o, fill) ==
    LET r == realloc(h, v.contents, count, o)
    IN  IF r.ptr = NULL /\ count # 0
        THEN Result([v EXCEPT !.contents = r.ptr], r.heap, BAD_ALLOC,
                    r.fault, r.how)
        ELSE Result([v EXCEPT !.contents = r.ptr, !.size = count,
                              !.capacity = count],
                    r.heap, OK, r.fault, r.how)

vector_resize(v, h, count, o, fill) ==
    LET r == realloc(h, v.contents, count, o)
    IN  IF r.ptr = NULL /\ count # 0
        THEN Result(v, r.heap, BAD_ALLOC, r.fault, r.how)
        ELSE LET m == IF count > v.size
                      THEN memset_old(h, v.contents, r, count, count - v.size)
                      ELSE [heap |-> r.heap, fault |-> "none"]
                 mem == [i \in 1..Len(m.heap.mem) |->
                           IF i > v.size /\ m.heap.mem[i] = Indet
                           THEN fill[i] ELSE m.heap.mem[i]]
             IN  Result([v EXCEPT !.contents = r.ptr, !.size = count,
                                  !.capacity = count],
                        [m.heap EXCEPT !.mem = mem], OK,
                        FirstFault(r.fault, m.fault), r.how)

\* vector_assign whose loop stops one element early
vector_assign_shortfill(v, h, count, value, o, fill) ==
    LET r == vector_resize(v, h, count, o, fill)
    IN  IF r.ret # 0
        THEN Result(r.vec,
                    IF count > 0
                    THEN [r.heap EXCEPT !.mem =
                            [i \in 1..Len(r.heap.mem) |->
                               IF i < count THEN value ELSE r.heap.mem[i]]]
                    ELSE r.heap,
                    OK, r.fault, r.realloc)
        ELSE Result(r.vec, r.heap, BAD_ALLOC, r.fault, r.realloc)

vector_assign(v, h, count, value, o, fill) ==
    LET r == vector_resize(v, h, count, o, fill)
    IN  IF r.ret # 0
        THEN LET ok == count = 0 \/ (Live(r.heap, r.vec.contents)
                                     /\ count <= Len(r.heap.mem))
             IN  Result(r.vec,
                        IF ok /\ count > 0
                        THEN [r.heap EXCEPT !.mem =
                                [i \in 1..Len(r.heap.mem) |->
                                   IF i <= count THEN value ELSE r.heap.mem[i]]]
                        ELSE r.heap,
                        OK,
                        FirstFault(r.fault, IF ok THEN "none" ELSE "write_oob"),
                        r.realloc)
        ELSE Result(r.vec, r.heap, BAD_ALLOC, r.fault, r.realloc)

\* growth by SCALING_FACTOR alone
GrowCount_double(v) == SCALING_FACTOR * v.size

\* the count push_back and insert pass to vector_reserve when the vector is full
GrowCount(v) == SCALING_FACTOR * v.size + 1

\* vector_push_back that never grows the buffer
vector_push_back_nogrow(v, h, value, o) ==
    LET w == Store(h, v.contents, v.size, value)
    IN  Result([v EXCEPT !.size = v.size + 1], w.heap, OK, w.fault, "none")

vector_push_back(v, h, value, o) ==
    LET full == v.size = v.capacity
        r == IF full THEN vector_reserve(v, h, GrowCount(v), o)
             ELSE Result(v, h, OK, "none", "none")
    IN  IF full /\ r.ret = BAD_ALLOC
        THEN r
        ELSE LET w == Store(r.heap, r.vec.contents, r.vec.size, value)
             IN  Result([r.vec EXCEPT !.size = r.vec.size + 1], w.heap, OK,
                        FirstFault(r.fault, w.fault), r.realloc)

\* vector_pop_back without the test for an empty vector
vector_pop_back_unchecked(v, h) ==
    Result([v EXCEPT !.size = v.size - 1], h, OK, "none", "none")

vector_pop_back(v, h) ==
    IF v.size = 0
    THEN Result(v, h, BAD_ALLOC, "none", "none")
    ELSE Result([v EXCEPT !.size = v.size - 1], h, OK, "none", "none")

\* vector_insert that moves one element too few
vector_insert_shortmove(v, h, index, value, o) ==
    IF index < 0 \/ index >= v.size
    THEN Result(v, h, BAD_ALLOC, "none", "none")
    ELSE LET full == v.size = v.capacity
             r == IF full THEN vector_reserve(v, h, GrowCount(v), o)
                  ELSE Result(v, h, OK, "none", "none")
         IN  IF full /\ r.ret = BAD_ALLOC
             THEN r
             ELSE LET mv == memmove(r.heap, r.vec.contents, index + 1, index,
                                    r.vec.size - index - 1)
                      w == Store(mv.heap, r.vec.contents, index, value)
                  IN  Result([r.vec EXCEPT !.size = r.vec.size + 1], w.heap, OK,
                             FirstFault(r.fault, FirstFault(mv.fault, w.fault)),
                             r.realloc)

\* vector_insert that accepts index == size
vector_insert_append(v, h, index, value, o) ==
    IF index < 0 \/ index > v.size
    THEN Result(v, h, BAD_ALLOC, "none", "none")
    ELSE LET full == v.size = v.capacity
             r == IF full THEN vector_reserve(v, h, GrowCount(v), o)
                  ELSE Result(v, h, OK, "none", "none")
         IN  IF full /\ r.ret = BAD_ALLOC
             THEN r
             ELSE LET mv == memmove(r.heap, r.vec.contents, index + 1, index,
                                    r.vec.size - index)
                      w == Store(mv.heap, r.vec.contents, index, value)
                  IN  Result([r.vec EXCEPT !.size = r.vec.size + 1], w.heap, OK,
                             FirstFault(r.fault, FirstFault(mv.fault, w.fault)),
                             r.realloc)

vector_insert(v, h, index, value, o) ==
    IF index < 0 \/ index >= v.size
    THEN Result(v, h, BAD_ALLOC, "none", "none")
    ELSE LET full == v.size = v.capacity
             r == IF full THEN vector_reserve(v, h, GrowCount(v), o)
                  ELSE Result(v, h, OK, "none", "none")
         IN  IF full /\ r.ret = BAD_ALLOC
             THEN r
             ELSE LET mv == memmove(r.heap, r.vec.contents, index + 1, index,
                                    r.vec.size - index)
                      w == Store(mv.heap, r.vec.contents, index, value)
                  IN  Result([r.vec EXCEPT !.size = r.vec.size + 1], w.heap, OK,
                             FirstFault(r.fault, FirstFault(mv.fault, w.fault)),
                             r.realloc)

\* vector_erase_range that moves the tail from rightmost instead of rightmost + 1
vector_erase_range_keeplast(v, h, leftmost, rightmost) ==
    IF leftmost > rightmost \/ leftmost < 0 \/ rightmost >= v.size
    THEN Result(v, h, BAD_ALLOC, "none", "none")
    ELSE LET mv == memmove(h, v.contents, leftmost, rightmost,
                           v.size - rightmost - 1)
         IN  Result([v EXCEPT !.size = v.size - (rightmost - leftmost + 1)],
                    mv.heap, OK, mv.fault, "none")

\* vector_erase_range without the test leftmost > rightmost
vector_erase_range_unordered(v, h, leftmost, rightmost) ==
    IF leftmost < 0 \/ rightmost >= v.size
    THEN Result(v, h, BAD_ALLOC, "none", "none")
    ELSE LET mv == memmove(h, v.contents, leftmost, rightmost + 1,
                           v.size - rightmost - 1)
         IN  Result([v EXCEPT !.size = v.size - (rightmost - leftmost + 1)],
                    mv.heap, OK, mv.fault, "none")

vector_erase_range(v, h, leftmost, rightmost) ==
    IF leftmost > rightmost \/ leftmost < 0 \/ rightmost >= v.size
    THEN Result(v, h, BAD_ALLOC, "none", "none")
    ELSE LET mv == memmove(h, v.contents, leftmost, rightmost + 1,
                           v.size - rightmost - 1)
         IN  Result([v EXCEPT !.size = v.size - (rightmost - leftmost + 1)],
                    mv.heap, OK, mv.fault, "none")

\* vector_erase that passes index + 1 as rightmost
vector_erase_two(v, h, index) == vector_erase_range(v, h, index, index + 1)

vector_erase(v, h, index) == vector_erase_range(v, h, index, index)

(* ---- the calls ---- *)

\* a call that met undefined behaviour may abort the process
AbortChoices(fault) == IF fault = "none" THEN {FALSE} ELSE BOOLEAN

Apply(op, r) ==
    \E abort \in AbortChoices(r.fault) :
        IF abort
        THEN /\ status' = "aborted"
             /\ UNCHANGED <<vec, heap>>
             /\ last' = [op |-> op, ret |-> VOID, fault |-> r.fault,
                         realloc |-> r.realloc]
        ELSE /\ status' = "running"
             /\ vec' = r.vec
             /\ heap' = r.heap
             /\ last' = [op |-> op, ret |-> r.ret, fault |-> r.fault,
                         realloc |-> r.realloc]

Tainted == fresh' = FALSE /\ pushed' = <<>>

\* the vector as declared, before vector_init has set its fields
Declared == [contents |-> NULL, size |-> 0, capacity |-> 0]

Init ==
    /\ \E o \in Outcomes :
         LET r == vector_init(Declared, NoHeap, o)
         IN  /\ vec = r.vec
             /\ heap = r.heap
             /\ last = [op |-> "init", ret |-> r.ret, fault |-> r.fault,
                        realloc |-> r.realloc]
    /\ status = "running"
    /\ fresh = TRUE
    /\ pushed = <<>>

\* vector_init on a vector that owns no block (on one that does, the block leaks)
Call_init ==
    /\ status = "running"
    /\ ~heap.alloc
    /\ \E o \in Outcomes : Apply("init", vector_init(vec, heap, o))
    /\ fresh' = (status' = "running")
    /\ pushed' = <<>>

Call_clear ==
    /\ status = "running"
    /\ Apply("clear", vector_clear(vec, heap))
    /\ Tainted

Counts == 0..MaxSize

\* the call vector_reserve(&vec, count)
ReserveCall(count) ==
    \E o \in Outcomes : Apply("reserve", vector_reserve(vec, heap, count, o))

Call_reserve ==
    /\ status = "running"
    /\ \E count \in Counts : ReserveCall(count)
    /\ Tainted

PushStep(value) ==
    /\ status = "running"
    /\ \E o \in Outcomes : Apply("push_back", vector_push_back(vec, heap, value, o))
    /\ fresh' = (fresh /\ status' = "running")
    /\ pushed' = IF fresh' /\ last'.ret = OK THEN Append(pushed, value)
                 ELSE IF fresh' THEN pushed ELSE <<>>

Call_push_back ==
    /\ vec.size < MaxSize
    /\ \E value \in Values : PushStep(value)

\* the call vector_resize(&vec, count)
ResizeCall(count) ==
    \E o \in Outcomes :
       \E fill \in [Exposed(vec, heap, count, o) -> Values] :
          Apply("resize", vector_resize(vec, heap, count, o, fill))

Call_resize ==
    /\ status = "running"
    /\ \E count \in Counts : ResizeCall(count)
    /\ Tainted

\* the call vector_assign(&vec, count, value); whatever its resize leaves in
\* the new elements is overwritten, so they are given value from the start
AssignCall(count, value) ==
    \E o \in Outcomes :
       Apply("assign", vector_assign(vec, heap, count, value, o,
                                     [i \in 1..count |-> value]))

Call_assign ==
    /\ status = "running"
    /\ \E count \in Counts, value \in Values : AssignCall(count, value)
    /\ Tainted

Call_pop_back ==
    /\ status = "running"
    /\ Apply("pop_back", vector_pop_back(vec, heap))
    /\ Tainted

Indices == 0..(MaxSize + 1)

\* the call vector_insert(&vec, index, value)
InsertCall(index, value) ==
    \E o \in Outcomes : Apply("insert", vector_insert(vec, heap, index, value, o))

Call_insert ==
    /\ status = "running"
    /\ vec.size < MaxSize
    /\ \E index \in Indices, value \in Values : InsertCall(index, value)
    /\ Tainted

\* the call vector_erase_range(&vec, leftmost, rightmost)
EraseRangeCall(leftmost, rightmost) ==
    Apply("erase_range", vector_erase_range(vec, heap, leftmost, rightmost))

Call_erase_range ==
    /\ status = "running"
    /\ \E leftmost \in Indices, rightmost \in Indices :
         EraseRangeCall(leftmost, rightmost)
    /\ Tainted

\* the call vector_erase(&vec, index)
EraseCall(index) == Apply("erase", vector_erase(vec, heap, index))

Call_erase ==
    /\ status = "running"
    /\ \E index \in Indices : EraseCall(index)
    /\ Tainted

Next ==
    \/ Call_init
    \/ Call_clear
    \/ Call_reserve
    \/ Call_push_back
    \/ Call_resize
    \/ Call_assign
    \/ Call_pop_back
    \/ Call_insert
    \/ Call_erase_range
    \/ Call_erase

Spec == Init /\ [][Next]_vars

\* push_back alone, from a vector vector_init has just set up
Push_only ==
    /\ vec.size < MaxPushes
    /\ \E value \in Values : PushStep(value)

NextPush == Push_only

SpecPush == Init /\ [][NextPush]_vars

(* ---- the properties ---- *)

\* the elements [0, size) of vector v in heap h
Elems(v, h) ==
    IF Live(h, v.contents) /\ v.size <= Len(h.mem)
    THEN [i \in 1..v.size |-> h.mem[i]]
    ELSE <<>>

\* the call that led to the current state returned (the process did not abort)
Returned == status = "running"

\* C1: the contents pointer is null exactly when capacity is 0, in every
\* state the operations reach.
C1_NullIffNoCapacity ==
    Returned => ((vec.contents = NULL) <=> (vec.capacity = 0))

\* C2: clear always returns and leaves size 0 and capacity 0, and a push_back
\* right after clear meets no released buffer: it allocates a new block and,
\* when it succeeds, the vector is the one-element sequence of the value pushed.
C2_ClearThenPushIsFresh ==
    [][ /\ (last'.op = "clear" /\ status' = "running") =>
             (vec'.size = 0 /\ vec'.capacity = 0)
        /\ (last.op = "clear" /\ last'.op = "push_back") =>
             /\ status' = "running"
             /\ last'.fault = "none"
             /\ last'.realloc \in {"new", "null"}
             /\ last'.ret = OK =>
                  (vec'.size = 1 /\ vec'.capacity = 1
                   /\ \E value \in Values : Elems(vec', heap') = <<value>>)
      ]_vars

\* C3: a resize that succeeds keeps the elements below min(count, old size)
\* and leaves zero in every element of [old size, count).
C3_ResizeKeepsAndZeroFills ==
    [][ (last'.op = "resize" /\ status' = "running" /\ last'.ret = OK) =>
          /\ \A i \in 1..vec'.size :
               i <= vec.size => Elems(vec', heap')[i] = Elems(vec, heap)[i]
          /\ \A i \in 1..vec'.size :
               i > vec.size => Elems(vec', heap')[i] = 0
      ]_vars

\* C4 as claimed: a successful init leaves size 0, capacity 0 and no buffer.
C4_InitAllocatesNothing ==
    (last.op = "init" /\ Returned /\ last.ret = OK) =>
        (vec.size = 0 /\ vec.capacity = 0 /\ vec.contents = NULL /\ ~heap.alloc)

\* C4 as amended: a successful init leaves size 0 and capacity INIT_CAPACITY,
\* with a buffer of INIT_CAPACITY slots allocated; capacity 0 and no buffer
\* is what a failed init leaves.
C4_InitReservesInitCapacity ==
    (last.op = "init" /\ Returned) =>
        /\ vec.size = 0
        /\ last.ret = OK =>
             (vec.capacity = INIT_CAPACITY /\ Live(heap, vec.contents)
              /\ Len(heap.mem) = INIT_CAPACITY)
        /\ last.ret = BAD_ALLOC =>
             (vec.capacity = 0 /\ vec.contents = NULL /\ ~heap.alloc)

C4_Witness ==
    last.op = "init" /\ Returned /\ last.ret = OK /\ last.realloc = "new"
    /\ vec.capacity = INIT_CAPACITY

\* C5: size <= capacity in every state the operations reach, failed
\* allocations included.
C5_SizeWithinCapacity == vec.size <= vec.capacity

\* a full vector whose growth has just been refused
C5_Witness ==
    /\ last.op \in {"push_back", "insert"}
    /\ last.ret = BAD_ALLOC /\ last.realloc = "null"
    /\ vec.size = vec.capacity /\ vec.size > 0
\* C6: after n push_back calls on a vector vector_init has just set up, all of
\* them successful, size is n and element i is the i-th value pushed.
C6_PushesKeptInOrder ==
    (fresh /\ Returned) =>
        (vec.size = Len(pushed) /\ Elems(vec, heap) = pushed)

\* the push that outgrew the initial capacity, the buffer having moved
C6_Witness ==
    /\ fresh /\ Returned
    /\ last.op = "push_back" /\ last.ret = OK /\ last.realloc = "moved"
    /\ Len(pushed) = INIT_CAPACITY + 1
    /\ \E i \in 1..INIT_CAPACITY : pushed[i] # pushed[i + 1]

\* C7: push_back changes capacity only when size = capacity held before the
\* call, and then to exactly 2 * size + 1; after the call capacity >= size.
C7_PushGrowsOnlyWhenFull ==
    [][ (last'.op = "push_back" /\ status' = "running") =>
          /\ vec'.capacity # vec.capacity =>
               (vec.size = vec.capacity /\ vec'.capacity = 2 * vec.size + 1)
          /\ (vec.size # vec.capacity \/ last'.ret = BAD_ALLOC) =>
               vec'.capacity = vec.capacity
          /\ vec'.capacity >= vec'.size
      ]_vars

C7_Witness ==
    /\ last.op = "push_back" /\ Returned /\ last.ret = OK
    /\ last.realloc \in {"same", "moved"}
    /\ vec.size = 3 /\ vec.capacity = 5

\* C8: when the allocation inside reserve, push_back or insert fails, the call
\* returns BAD_ALLOC and the vector and its buffer are as before the call.
C8_FailedGrowthChangesNothing ==
    [][ (last'.op \in {"reserve", "push_back", "insert"}
         /\ status' = "running" /\ last'.realloc = "null") =>
          (last'.ret = BAD_ALLOC /\ vec' = vec /\ heap' = heap)
      ]_vars

C8_Witness ==
    /\ last.op = "insert" /\ Returned
    /\ last.ret = BAD_ALLOC /\ last.realloc = "null"
    /\ vec.size = 2 /\ Elems(vec, heap) = <<1, 0>>

\* s with value put before position index (counted from 0)
InsertedAt(s, index, value) ==
    [i \in 1..(Len(s) + 1) |->
       IF i <= index THEN s[i]
       ELSE IF i = index + 1 THEN value ELSE s[i - 1]]

\* C9: a successful insert(index, value) with index < size adds one to size,
\* puts value at index, moves the elements of [index, size) one place up in
\* their order and keeps those of [0, index), whether the buffer grows or not.
C9_InsertShiftsTail ==
    [][ (last'.op = "insert" /\ status' = "running" /\ last'.ret = OK) =>
          \A index \in Indices, value \in Values :
              (index < vec.size /\ InsertCall(index, value)) =>
                  /\ vec'.size = vec.size + 1
                  /\ Elems(vec', heap') =
                       InsertedAt(Elems(vec, heap), index, value)
      ]_vars

\* an insert before a tail of two elements that had to grow the buffer
C9_Witness ==
    /\ last.op = "insert" /\ Returned /\ last.ret = OK
    /\ last.realloc = "moved"
    /\ vec.size = 3 /\ Elems(vec, heap) = <<1, 0, 1>>

\* C10: insert(index, value) with index >= size returns BAD_ALLOC and changes
\* nothing (no reallocation, no store): insert never appends.
C10_InsertAtTailRejected ==
    [][ (last'.op = "insert") =>
          \A index \in Indices, value \in Values :
              (index >= vec.size /\ InsertCall(index, value)) =>
                  /\ status' = "running"
                  /\ last'.ret = BAD_ALLOC
                  /\ last'.realloc = "none"
                  /\ vec' = vec
                  /\ heap' = heap
      ]_vars

\* an insert refused without an allocation, on a vector that has elements
C10_Witness ==
    /\ last.op = "insert" /\ Returned
    /\ last.ret = BAD_ALLOC /\ last.realloc = "none"
    /\ vec.size = 2 /\ vec.capacity > vec.size
\* s without its elements at positions leftmost..rightmost (counted from 0)
ErasedRange(s, leftmost, rightmost) ==
    [i \in 1..(Len(s) - (rightmost - leftmost + 1)) |->
       IF i <= leftmost THEN s[i] ELSE s[i + (rightmost - leftmost + 1)]]

\* C11: erase_range(l, r) with l <= r < size returns OK, takes r - l + 1 off
\* size, brings the elements that followed r down to l in their order, keeps
\* the elements below l and keeps capacity.
C11_EraseRangeClosesGap ==
    [][ (last'.op = "erase_range") =>
          \A leftmost \in Indices, rightmost \in Indices :
              (leftmost <= rightmost /\ rightmost < vec.size
               /\ EraseRangeCall(leftmost, rightmost)) =>
                  /\ status' = "running"
                  /\ last'.ret = OK
                  /\ vec'.size = vec.size - (rightmost - leftmost + 1)
                  /\ Elems(vec', heap') =
                       ErasedRange(Elems(vec, heap), leftmost, rightmost)
                  /\ vec'.capacity = vec.capacity
                  /\ vec'.contents = vec.contents
      ]_vars

\* two of three elements left after an erase_range in a full buffer of three
C11_Witness ==
    /\ last.op = "erase_range" /\ Returned /\ last.ret = OK
    /\ vec.size = 2 /\ vec.capacity = 3
    /\ Elems(vec, heap) = <<0, 1>> /\ heap.mem[3] = 1

\* C12: erase_range(l, r) with l > r or r >= size returns BAD_ALLOC and
\* leaves the vector and its buffer as they were.
C12_EraseRangeRejectsBadRange ==
    [][ (last'.op = "erase_range") =>
          \A leftmost \in Indices, rightmost \in Indices :
              ((leftmost > rightmost \/ rightmost >= vec.size)
               /\ EraseRangeCall(leftmost, rightmost)) =>
                  /\ status' = "running"
                  /\ last'.ret = BAD_ALLOC
                  /\ vec' = vec
                  /\ heap' = heap
      ]_vars

\* an erase_range refused on a vector that has elements
C12_Witness ==
    /\ last.op = "erase_range" /\ Returned /\ last.ret = BAD_ALLOC
    /\ vec.size = 2 /\ Elems(vec, heap) = <<1, 0>>

\* C13: pop_back returns OK exactly when size > 0; it then takes 1 off size
\* and leaves capacity, the pointer and the buffer alone; on an empty vector
\* it returns BAD_ALLOC and changes nothing, so size never goes below 0.
C13_PopBackOnlyWhenNonEmpty ==
    [][ (last'.op = "pop_back") =>
          /\ status' = "running"
          /\ (last'.ret = OK) <=> (vec.size > 0)
          /\ vec.size > 0 =>
               (vec'.size = vec.size - 1 /\ vec'.capacity = vec.capacity
                /\ vec'.contents = vec.contents /\ heap' = heap)
          /\ vec.size = 0 =>
               (last'.ret = BAD_ALLOC /\ vec' = vec /\ heap' = heap)
          /\ vec'.size >= 0
      ]_vars

\* a pop_back refused on an empty vector that owns a buffer
C13_Witness ==
    /\ last.op = "pop_back" /\ Returned /\ last.ret = BAD_ALLOC
    /\ vec.size = 0 /\ vec.capacity > 0
\* C14: an assign(count, value) that returns OK leaves size = capacity = count
\* and value in every element of [0, count), whatever the vector held; assign
\* returns BAD_ALLOC exactly when the realloc of its resize fails for
\* count # 0, and then stores nothing.  Stated of every call that can be made
\* in the current state.
C14_AssignFillsCount ==
    Returned =>
        \A count \in Counts, value \in Values, o \in Outcomes :
            LET r == vector_assign(vec, heap, count, value, o,
                                   [i \in 1..count |-> value])
            IN  /\ (r.ret = BAD_ALLOC) <=> (r.realloc = "null" /\ count # 0)
                /\ r.ret = OK =>
                     /\ r.vec.size = count
                     /\ r.vec.capacity = count
                     /\ Elems(r.vec, r.heap) = [i \in 1..count |-> value]
                /\ r.ret = BAD_ALLOC => (r.vec = vec /\ r.heap = heap)

\* three elements assigned over other contents, in a block that moved
C14_Witness ==
    /\ last.op = "assign" /\ Returned /\ last.ret = OK
    /\ last.realloc = "moved"
    /\ vec.size = 3 /\ vec.capacity = 3 /\ Elems(vec, heap) = <<1, 1, 1>>

\* C15: a reserve(count) that returns OK keeps size and the elements and
\* leaves capacity = max(old capacity, count): nothing at all changes and
\* realloc is not called when count <= capacity, and the buffer has exactly
\* count slots when count > capacity.
C15_ReserveKeepsElements ==
    [][ (last'.op = "reserve" /\ status' = "running" /\ last'.ret = OK) =>
          \A count \in Counts :
              ReserveCall(count) =>
                  /\ vec'.size = vec.size
                  /\ Elems(vec', heap') = Elems(vec, heap)
                  /\ vec'.capacity =
                       IF count > vec.capacity THEN count ELSE vec.capacity
                  /\ count <= vec.capacity =>
                       (vec' = vec /\ heap' = heap /\ last'.realloc = "none")
                  /\ count > vec.capacity =>
                       (Live(heap', vec'.contents) /\ Len(heap'.mem) = count)
      ]_vars

\* a reserve that moved a full buffer of two elements to one of three
C15_Witness ==
    /\ last.op = "reserve" /\ Returned /\ last.ret = OK
    /\ last.realloc = "moved"
    /\ vec.size = 2 /\ vec.capacity = 3 /\ Elems(vec, heap) = <<0, 1>>
\* C16: clear on a vector that is already empty with capacity 0 releases
\* nothing a second time and leaves size 0 and capacity 0.
C16_ClearTwiceReleasesOnce ==
    [][ (last'.op = "clear" /\ vec.size = 0 /\ vec.capacity = 0) =>
          /\ status' = "running"
          /\ last'.fault = "none"
          /\ heap' = heap
          /\ vec'.size = 0 /\ vec'.capacity = 0
      ]_vars

\* C17: a resize(count) that returns OK leaves size = capacity = count, and
\* resize(0) always returns OK, with size 0, capacity 0, a null pointer and no
\* block allocated.
C17_ResizeSnapsAndZeroReleases ==
    [][ (last'.op = "resize") =>
          \A count \in Counts :
              ResizeCall(count) =>
                  /\ (status' = "running" /\ last'.ret = OK) =>
                       (vec'.size = count /\ vec'.capacity = count)
                  /\ count = 0 =>
                       /\ status' = "running"
                       /\ last'.ret = OK
                       /\ last'.fault = "none"
                       /\ vec'.contents = NULL
                       /\ ~heap'.alloc
      ]_vars

\* C18: erase(index) returns what erase_range(index, index) returns and leaves
\* the vector and the buffer that erase_range(index, index) leaves.
C18_EraseIsEraseRangeOfOne ==
    [][ (last'.op = "erase") =>
          \A index \in Indices :
              EraseCall(index) =>
                  LET r == vector_erase_range(vec, heap, index, index)
                  IN  /\ status' = "running"
                      /\ last'.ret = r.ret
                      /\ vec' = r.vec
                      /\ heap' = r.heap
                      /\ r.ret = OK =>
                           Elems(vec', heap') =
                               ErasedRange(Elems(vec, heap), index, index)
      ]_vars

\* two of three elements left after an erase in a full buffer of three
C18_Witness ==
    /\ last.op = "erase" /\ Returned /\ last.ret = OK
    /\ vec.size = 2 /\ vec.capacity = 3
    /\ Elems(vec, heap) = <<1, 0>> /\ heap.mem[3] = 0

\* C19: no operation stores or moves outside the block the vector owns, and
\* none hands a released block to realloc or free.
C19_NoAccessOutsideOwnedBlock == last.fault = "none"

\* C20: when realloc fails inside resize(count) with count # 0, resize returns
\* BAD_ALLOC and the vector and its buffer are as before the call.  Stated of
\* every call that can be made in the current state.
C20_FailedResizeChangesNothing ==
    Returned =>
        \A count \in Counts \ {0} :
            LET r == vector_resize(vec, heap, count, "null", <<>>)
            IN  /\ r.realloc = "null"
                /\ r.ret = BAD_ALLOC
                /\ r.vec = vec
                /\ r.heap = heap

\* a resize refused on a vector whose two elements are still in its block
C20_Witness ==
    /\ last.op = "resize" /\ Returned
    /\ last.ret = BAD_ALLOC /\ last.realloc = "null"
    /\ vec.size = 2 /\ Live(heap, vec.contents)
    /\ Elems(vec, heap) = <<1, 0>>
====
